---- MODULE Spec2Model ----
(***************************************************************************)
(* A model of topk-io/bench: the task matrix and dispatcher of bench.py,   *)
(* the cleanup task, and the five provider adapters (filter translation,   *)
(* document conversion, setup).                                            *)
(*                                                                         *)
(* Python strings whose characters matter (document ids, keyword filters,  *)
(* collection names) are sequences of one-character strings; the others    *)
(* (sizes, provider names, regions) are atoms.                             *)
(***************************************************************************)
EXTENDS Integers, Sequences, FiniteSets, TLC

VARIABLES
    \* ---- dispatcher (bench.py: entrypoints and run) ----
    pc,         \* position of the local entrypoint
    cmd,        \* the invocation: [mode, size, provider, wet]
    gen,        \* the generator handed to run(): matrix items not yet spawned
    tasks,      \* run(): the list of spawned handles
    cursor,     \* run(): number of handles the for loop has gone through
    awaited,    \* log of t.get() calls, in call order: [task, ok]
    errors,     \* run(): the errors list (index of the task that raised)
    failure,    \* the exception run() raised: [kind, count, errors]
    \* ---- cleanup task (bench.py: cleanup_provider) ----
    cpc,        \* position of cleanup_provider
    cargs,      \* its arguments: [provider_name, wet]
    backend,    \* the collections that exist in the provider's backend
    listing,    \* the list list_collections() returned
    ci,         \* number of listed collections the for loop has gone through
    deleted,    \* log of delete_collection calls, in call order
    \* ---- one adapter and the collection it writes and queries ----
    dpc,        \* "empty", "stored", "answered" by a query, "raised" by a call
    adapter,    \* the provider the adapter belongs to
    doc,        \* the Document last handed to upsert
    rows,       \* the backend's collection: the rows it holds, as the adapter wrote them
    call,       \* the last call made on the adapter: [op, int_filter, keyword_filter, id]
    sent,       \* the filter the last query sent to the backend
    result,     \* the Documents the last call returned
    \* ---- two instances of one adapter running setup on one backend ----
    sAdapter,   \* the provider both instances belong to
    sName,      \* the collection name passed to setup
    colls,      \* the collections (namespaces, indexes) that exist in the backend
    spc,        \* per instance: position inside setup
    scalls,     \* per instance: number of setup calls begun
    slog,       \* events: [inst, call, what], what in created / returned / raised
    \* ---- one benchmark task (bench.py: run_*_bench) on its executor ----
    ppc,        \* position of the task
    pargs,      \* its keyword arguments
    passes,     \* log of the tb.ingest / tb.query calls begun: their configs, in order
    running,    \* indexes into passes of the calls that have not returned
    pidx,       \* number of measured passes begun
    written,    \* log of the tb.write_metrics calls: their paths, in order
    exc         \* the call whose exception left the task function, or None

dispVars  == <<pc, cmd, gen, tasks, cursor, awaited, errors, failure>>
cleanVars == <<cpc, cargs, backend, listing, ci, deleted>>
dataVars  == <<dpc, adapter, doc, rows, call, sent, result>>
setupVars == <<sAdapter, sName, colls, spc, scalls, slog>>
protoVars == <<ppc, pargs, passes, running, pidx, written, exc>>
vars      == <<dispVars, cleanVars, dataVars, setupVars, protoVars>>

None == "None"

\* run() has raised nothing
NoFailure == [kind |-> None, count |-> 0, errors |-> <<>>]

(***************************************************************************)
(* Bounds of the model.                                                    *)
(***************************************************************************)
\* at most this many awaited tasks raise in one run
MaxFailures == 3
\* at most this many collections exist in a backend when cleanup starts
MaxCollections == 3

(***************************************************************************)
(* Helpers on sequences.                                                   *)
(***************************************************************************)
Range(s) == {s[i] : i \in DOMAIN s}

Count(s, x) == Cardinality({i \in DOMAIN s : s[i] = x})

\* all orderings of a finite set, as sequences without repetition
Orderings(S) ==
    {s \in [1..Cardinality(S) -> S] : \A i, j \in 1..Cardinality(S) : i # j => s[i] # s[j]}

(***************************************************************************)
(* Sizes and providers (bench.py).                                         *)
(***************************************************************************)
AllSizes == <<"100k", "1m", "10m">>

AllProviders == <<
    [region |-> "eu", provider |-> "topk",        batch_size |-> 2000, concurrency |-> 8],
    [region |-> "eu", provider |-> "milvus",      batch_size |-> 2000, concurrency |-> 8],
    [region |-> "eu", provider |-> "turbopuffer", batch_size |-> 2000, concurrency |-> 8],
    [region |-> "eu", provider |-> "qdrant",      batch_size |-> 2000, concurrency |-> 4],
    [region |-> "us", provider |-> "pinecone",    batch_size |-> 500,  concurrency |-> 12] >>

ProviderNames == {AllProviders[i].provider : i \in DOMAIN AllProviders}

\* values the command line may pass for --size and --provider
SizeArgs     == {None, "100k", "1m", "10m", "1g"}
ProviderArgs == {None} \cup ProviderNames \cup {"weaviate"}

\* uuid.uuid4(): one fresh identifier per invocation
BenchmarkIds == {"uuid-a", "uuid-b"}

\* variant of list_sizes that ignores the override
list_sizes_unfiltered(only) == AllSizes

list_sizes(only) ==
    IF only # None THEN SelectSeq(AllSizes, LAMBDA s : s = only) ELSE AllSizes

\* variant of list_providers that ignores the override
list_providers_unfiltered(only) == AllProviders

list_providers(only) ==
    IF only # None THEN SelectSeq(AllProviders, LAMBDA p : p.provider = only)
    ELSE AllProviders

\* variant of runner that ignores the region
runner_one_executor(region) == "eu_runner"

\* runner(region): the executor bound to the region; "ValueError" stands for the raise
runner(region) ==
    IF region = "eu" THEN "eu_runner"
    ELSE IF region = "us" THEN "us_runner"
    ELSE "ValueError"

\* the items of "for size in sizes for region, provider, b in providers", in order
SizeProviderProduct(sizes, providers) ==
    [k \in 1..(Len(sizes) * Len(providers)) |->
        [size |-> sizes[((k - 1) \div Len(providers)) + 1],
         p    |-> providers[((k - 1) % Len(providers)) + 1]]]

\* the items of "for region, provider, _ in providers", in order
ProviderOnly(providers) ==
    [k \in 1..Len(providers) |-> [size |-> None, p |-> providers[k]]]

\* the spawn call each entrypoint makes for one item of its generator
SpawnCall(mode, item, benchmark_id, wet) ==
    [executor      |-> runner(item.p.region),
     fn            |-> CASE mode = "ingest"  -> "run_ingest_bench"
                         [] mode = "qps"     -> "run_qps_bench"
                         [] mode = "filters" -> "run_filter_bench"
                         [] mode = "rw"      -> "run_rw_bench"
                         [] mode = "cleanup" -> "cleanup_provider",
     provider_name |-> item.p.provider,
     size          |-> item.size,
     benchmark_id  |-> IF mode = "cleanup" THEN None ELSE benchmark_id,
     batch_size    |-> IF mode = "ingest" THEN item.p.batch_size ELSE 0,
     concurrency   |-> IF mode = "ingest" THEN item.p.concurrency ELSE 0,
     wet           |-> IF mode = "cleanup" THEN wet ELSE FALSE]

(***************************************************************************)
(* The local entrypoints: each builds its generator and calls run().       *)
(***************************************************************************)
Enter(mode, size, provider, wet, items, benchmark_id) ==
    /\ pc = "idle"
    /\ cmd' = [mode |-> mode, size |-> size, provider |-> provider, wet |-> wet]
    /\ gen' = [k \in DOMAIN items |-> SpawnCall(mode, items[k], benchmark_id, wet)]
    /\ tasks' = <<>>
    /\ cursor' = 0
    /\ awaited' = <<>>
    /\ errors' = <<>>
    /\ failure' = NoFailure
    /\ pc' = "spawning"
    /\ UNCHANGED <<cleanVars, dataVars, setupVars, protoVars>>

ingest(size, provider, benchmark_id) ==
    Enter("ingest", size, provider, FALSE,
          SizeProviderProduct(list_sizes(size), list_providers(provider)), benchmark_id)

\* variant of qps that loops over the providers only
qps_per_provider(size, provider, benchmark_id) ==
    Enter("qps", size, provider, FALSE,
          ProviderOnly(list_providers(provider)), benchmark_id)

qps(size, provider, benchmark_id) ==
    Enter("qps", size, provider, FALSE,
          SizeProviderProduct(list_sizes(size), list_providers(provider)), benchmark_id)

filters(size, provider, benchmark_id) ==
    Enter("filters", size, provider, FALSE,
          SizeProviderProduct(list_sizes(size), list_providers(provider)), benchmark_id)

rw(size, provider, benchmark_id) ==
    Enter("rw", size, provider, FALSE,
          SizeProviderProduct(list_sizes(size), list_providers(provider)), benchmark_id)

cleanup(provider, wet) ==
    Enter("cleanup", None, provider, wet,
          ProviderOnly(list_providers(provider)), None)

(***************************************************************************)
(* run(tasks).                                                             *)
(***************************************************************************)
\* tasks = list(tasks): one step of draining the generator, which spawns the
\* next task on its executor. A raise of runner() leaves run() at once.
RunSpawn ==
    /\ pc = "spawning"
    /\ gen # <<>>
    /\ IF Head(gen).executor = "ValueError"
         THEN /\ pc' = "raised"
              /\ failure' = [kind |-> "ValueError", count |-> 0, errors |-> <<>>]
              /\ UNCHANGED <<gen, tasks>>
         ELSE /\ tasks' = Append(tasks, Head(gen))
              /\ gen' = Tail(gen)
              /\ UNCHANGED <<pc, failure>>
    /\ UNCHANGED <<cmd, cursor, awaited, errors, cleanVars, dataVars, setupVars, protoVars>>

\* variant of RunSpawned that starts the loop on a generator not yet drained
RunSpawnedEarly ==
    /\ pc = "spawning"
    /\ pc' = "awaiting"
    /\ UNCHANGED <<cmd, gen, tasks, cursor, awaited, errors, failure, cleanVars, dataVars, setupVars, protoVars>>

\* the generator is exhausted: the for loop starts
RunSpawned ==
    /\ pc = "spawning"
    /\ gen = <<>>
    /\ pc' = "awaiting"
    /\ UNCHANGED <<cmd, gen, tasks, cursor, awaited, errors, failure, cleanVars, dataVars, setupVars, protoVars>>

\* one iteration of "for t in tasks": t.get() returns (ok) or raises
RunAwaitStep(ok) ==
    /\ pc = "awaiting"
    /\ cursor < Len(tasks)
    /\ ok \/ Len(errors) < MaxFailures
    /\ cursor' = cursor + 1
    /\ awaited' = Append(awaited, [task |-> cursor + 1, ok |-> ok])
    /\ errors' = IF ok THEN errors ELSE Append(errors, cursor + 1)
    /\ UNCHANGED <<pc, cmd, gen, tasks, failure, cleanVars, dataVars, setupVars, protoVars>>

RunAwait == \E ok \in BOOLEAN : RunAwaitStep(ok)

\* variant of RunFinish that lets a single error pass
RunFinishMoreThanOne ==
    /\ pc = "awaiting"
    /\ cursor = Len(tasks)
    /\ IF Len(errors) > 1
         THEN /\ pc' = "raised"
              /\ failure' = [kind |-> "Exception", count |-> Len(errors), errors |-> errors]
         ELSE /\ pc' = "returned"
              /\ failure' = NoFailure
    /\ UNCHANGED <<cmd, gen, tasks, cursor, awaited, errors, cleanVars, dataVars, setupVars, protoVars>>

\* after the loop: raise the aggregate exception, or return
RunFinish ==
    /\ pc = "awaiting"
    /\ cursor = Len(tasks)
    /\ IF errors # <<>>
         THEN /\ pc' = "raised"
              /\ failure' = [kind |-> "Exception", count |-> Len(errors), errors |-> errors]
         ELSE /\ pc' = "returned"
              /\ failure' = NoFailure
    /\ UNCHANGED <<cmd, gen, tasks, cursor, awaited, errors, cleanVars, dataVars, setupVars, protoVars>>

(***************************************************************************)
(* Collection names; the Milvus adapter's name conversion (milvus.py).     *)
(***************************************************************************)
\* collection.replace("-", "_")
sanitize_collection(collection) ==
    [i \in DOMAIN collection |-> IF collection[i] = "-" THEN "_" ELSE collection[i]]

\* names of collections that may be found in a backend
CollectionPool ==
    { <<"x", "-", "1", "m">>, <<"x", "-", "1", "0", "m">>, <<"y", "-", "1", "m">>,
      <<"t", "m", "p">>, <<"o", "l", "d">> }

\* the name under which the adapter keeps a collection in its backend
BackendName(provider_name, collection) ==
    IF provider_name = "milvus" THEN sanitize_collection(collection) ELSE collection

(***************************************************************************)
(* cleanup_provider(provider_name, wet), the task the cleanup entrypoint   *)
(* spawns, against the backend of its provider.                            *)
(***************************************************************************)
\* provider.list_collections(): the backend's collections, in the backend's order
CleanList ==
    /\ cpc = "start"
    /\ \E l \in Orderings(backend) : listing' = l
    /\ ci' = 0
    /\ cpc' = "loop"
    /\ UNCHANGED <<cargs, backend, deleted, dispVars, dataVars, setupVars, protoVars>>

\* provider.delete_collection(collection) returning normally
delete_collection(provider_name, collection) ==
    /\ deleted' = Append(deleted, collection)
    /\ backend' = backend \ {BackendName(provider_name, collection)}

\* variant of CleanStep that does not test wet
CleanStepAlwaysDeletes(ok) ==
    /\ cpc = "loop"
    /\ ci < Len(listing)
    /\ IF ok
         THEN /\ delete_collection(cargs.provider_name, listing[ci + 1])
              /\ ci' = ci + 1
              /\ UNCHANGED cpc
         ELSE /\ deleted' = Append(deleted, listing[ci + 1])
              /\ cpc' = "raised"
              /\ UNCHANGED <<backend, ci>>
    /\ UNCHANGED <<cargs, listing, dispVars, dataVars, setupVars, protoVars>>

\* one iteration of "for collection in provider.list_collections()"; with wet
\* set, the backend's delete returns (ok) or raises, which ends the task
CleanStep(ok) ==
    /\ cpc = "loop"
    /\ ci < Len(listing)
    /\ IF cargs.wet
         THEN IF ok
                THEN /\ delete_collection(cargs.provider_name, listing[ci + 1])
                     /\ ci' = ci + 1
                     /\ UNCHANGED cpc
                ELSE /\ deleted' = Append(deleted, listing[ci + 1])
                     /\ cpc' = "raised"
                     /\ UNCHANGED <<backend, ci>>
         ELSE /\ ok
              /\ ci' = ci + 1
              /\ UNCHANGED <<cpc, backend, deleted>>
    /\ UNCHANGED <<cargs, listing, dispVars, dataVars, setupVars, protoVars>>

CleanLoop == \E ok \in BOOLEAN : CleanStep(ok)

CleanReturn ==
    /\ cpc = "loop"
    /\ ci = Len(listing)
    /\ cpc' = "done"
    /\ UNCHANGED <<cargs, backend, listing, ci, deleted, dispVars, dataVars, setupVars, protoVars>>

(***************************************************************************)
(* Python string operations the adapters use.                              *)
(***************************************************************************)
\* all strings over an alphabet, up to a length
Strings(alphabet, maxlen) == UNION {[1..n -> alphabet] : n \in 0..maxlen}

\* s.split(" "): the pieces between single spaces, empty pieces included
RECURSIVE split(_)
split(s) ==
    IF s = <<>> THEN << <<>> >>
    ELSE LET r == split(Tail(s))
         IN  IF Head(s) = " " THEN << <<>> >> \o r
             ELSE << <<Head(s)>> \o r[1] >> \o Tail(r)

\* " ".join(parts)
RECURSIVE join(_)
join(parts) ==
    IF parts = <<>> THEN <<>>
    ELSE IF Len(parts) = 1 THEN parts[1]
    ELSE parts[1] \o <<" ">> \o join(Tail(parts))

\* the whitespace-separated tokens of a string, as a set
Tokens(s) == {t \in Range(split(s)) : t # <<>>}

Digits == <<"0", "1", "2", "3", "4", "5", "6", "7", "8", "9">>

DigitValue(c) == (CHOOSE i \in DOMAIN Digits : Digits[i] = c) - 1

\* int(s) returns for these strings and raises ValueError for the others
is_int_literal(s) == s # <<>> /\ \A i \in DOMAIN s : s[i] \in Range(Digits)

\* int(s), for a string of digits
RECURSIVE int(_)
int(s) ==
    IF s = <<>> THEN 0
    ELSE int(SubSeq(s, 1, Len(s) - 1)) * 10 + DigitValue(s[Len(s)])

\* str(n), for n >= 0
RECURSIVE str(_)
str(n) ==
    IF n < 10 THEN <<Digits[n + 1]>>
    ELSE str(n \div 10) \o <<Digits[(n % 10) + 1]>>

\* an optional argument: <<>> is None, <<v>> is the value v
Some(v) == <<v>>
Absent == <<>>

(***************************************************************************)
(* Documents and query arguments.                                          *)
(***************************************************************************)
\* longest keyword_filter of a stored document
MaxKwLen == 3

DocIds == { <<"7">>, <<"0", "7">>, <<"7", "0">>, <<"a", "7">> }
DocInts == {-1, 0, 1}
DocKeywords == Strings({"a", "b", " "}, MaxKwLen)

Documents ==
    [id : DocIds, text : {"hello"}, int_filter : DocInts, keyword_filter : DocKeywords]

\* thresholds and keyword filters a query may pass; each keyword filter has
\* one or several tokens
IntFilters == {Absent} \cup {Some(x) : x \in {-1, 0, 1}}
KeywordFilters ==
    {Absent} \cup {Some(k) : k \in { <<"a">>, <<"b">>, <<"a", "b">>,
                                      <<"a", " ", "b">>, <<"b", " ", "a">>, <<"a", " ", "a">> }}

NoDoc == [id |-> <<>>, text |-> "", int_filter |-> 0, keyword_filter |-> <<>>]
NoCall == [op |-> "none", int_filter |-> Absent, keyword_filter |-> Absent, id |-> <<>>]

(***************************************************************************)
(* The adapters: what upsert writes (providers/*.py).                      *)
(***************************************************************************)
topk_from_document(d) ==
    [id |-> d.id, text |-> d.text, int_filter |-> d.int_filter,
     keyword_filter |-> d.keyword_filter]

milvus_upsert_row(d) ==
    [id |-> d.id, text |-> d.text, int_filter |-> d.int_filter,
     keyword_filter |-> d.keyword_filter]

turbopuffer_from_document(d) ==
    [id |-> d.id, text |-> d.text, int_filter |-> d.int_filter,
     keyword_filter |-> d.keyword_filter]

pinecone_upsert_vector(d) ==
    [id |-> d.id, text |-> d.text, int_filter |-> d.int_filter,
     keyword_filter |-> split(d.keyword_filter)]

qdrant_upsert_point(d) ==
    [id |-> int(d.id), text |-> d.text, int_filter |-> d.int_filter,
     keyword_filter |-> split(d.keyword_filter)]

\* whether building the row raises: only Qdrant's int(doc.id) can
upsert_raises(name, d) == name = "qdrant" /\ ~is_int_literal(d.id)

upsert_row(name, d) ==
    CASE name = "topk"        -> topk_from_document(d)
      [] name = "milvus"      -> milvus_upsert_row(d)
      [] name = "turbopuffer" -> turbopuffer_from_document(d)
      [] name = "pinecone"    -> pinecone_upsert_vector(d)
      [] name = "qdrant"      -> qdrant_upsert_point(d)

(***************************************************************************)
(* The adapters: what a result row is turned into.                         *)
(***************************************************************************)
topk_to_document(row) ==
    [id |-> row.id, text |-> row.text, int_filter |-> row.int_filter,
     keyword_filter |-> row.keyword_filter]

milvus_to_document(row) ==
    [id |-> row.id, text |-> row.text, int_filter |-> row.int_filter,
     keyword_filter |-> row.keyword_filter]

turbopuffer_to_document(row) ==
    [id |-> row.id, text |-> row.text, int_filter |-> row.int_filter,
     keyword_filter |-> row.keyword_filter]

pinecone_to_document(row) ==
    [id |-> row.id, text |-> row.text, int_filter |-> row.int_filter,
     keyword_filter |-> join(row.keyword_filter)]

qdrant_to_document(row) ==
    [id |-> str(row.id), text |-> row.text, int_filter |-> row.int_filter,
     keyword_filter |-> join(row.keyword_filter)]

to_document(name, row) ==
    CASE name = "topk"        -> topk_to_document(row)
      [] name = "milvus"      -> milvus_to_document(row)
      [] name = "turbopuffer" -> turbopuffer_to_document(row)
      [] name = "pinecone"    -> pinecone_to_document(row)
      [] name = "qdrant"      -> qdrant_to_document(row)

(***************************************************************************)
(* The adapters: the filter query() sends for (int_filter, keyword_filter).*)
(***************************************************************************)
IntCond(op, x) == [field |-> "int_filter", op |-> op, value |-> x]
KwCond(op, k)  == [field |-> "keyword_filter", op |-> op, value |-> k]

\* "if x is not None" and the truth value "if x" of an optional int / str
is_not_None(opt) == opt # Absent
truthy_int(opt)  == opt # Absent /\ opt[1] # 0
truthy_str(opt)  == opt # Absent /\ opt[1] # <<>>

topk_query_filter(x, k) ==
    (IF is_not_None(x) THEN <<IntCond("lte", x[1])>> ELSE <<>>)
    \o (IF is_not_None(k) THEN <<KwCond("match_all", k[1])>> ELSE <<>>)

milvus_query_filter(x, k) ==
    (IF is_not_None(x) THEN <<IntCond("<=", x[1])>> ELSE <<>>)
    \o (IF is_not_None(k) THEN <<KwCond("TEXT_MATCH", k[1])>> ELSE <<>>)

turbopuffer_query_filter(x, k) ==
    (IF truthy_int(x) THEN <<IntCond("Lte", x[1])>> ELSE <<>>)
    \o (IF truthy_str(k) THEN <<KwCond("ContainsAllTokens", k[1])>> ELSE <<>>)

pinecone_query_filter(x, k) ==
    (IF is_not_None(x) THEN <<IntCond("$lte", x[1])>> ELSE <<>>)
    \o (IF is_not_None(k) THEN <<KwCond("$in", <<k[1]>>)>> ELSE <<>>)

qdrant_query_filter(x, k) ==
    (IF is_not_None(x) THEN <<IntCond("Range.lte", x[1])>> ELSE <<>>)
    \o (IF is_not_None(k) THEN <<KwCond("MatchValue", k[1])>> ELSE <<>>)

query_filter(name, x, k) ==
    CASE name = "topk"        -> topk_query_filter(x, k)
      [] name = "milvus"      -> milvus_query_filter(x, k)
      [] name = "turbopuffer" -> turbopuffer_query_filter(x, k)
      [] name = "pinecone"    -> pinecone_query_filter(x, k)
      [] name = "qdrant"      -> qdrant_query_filter(x, k)

(***************************************************************************)
(* The backends: how each evaluates a condition the adapter sent on a row  *)
(* the adapter wrote.                                                      *)
(***************************************************************************)
Matches(cond, row) ==
    CASE cond.op \in {"lte", "<=", "Lte", "$lte", "Range.lte"} ->
            row.int_filter <= cond.value
         \* every token of the value is a token of the text field
      [] cond.op \in {"match_all", "ContainsAllTokens"} ->
            Tokens(cond.value) \subseteq Tokens(row.keyword_filter)
         \* some token of the value is a token of the text field
      [] cond.op = "TEXT_MATCH" ->
            Tokens(cond.value) \cap Tokens(row.keyword_filter) # {}
         \* some element of the stored list is one of the listed values
      [] cond.op = "$in" ->
            Range(row.keyword_filter) \cap Range(cond.value) # {}
         \* some element of the stored list equals the value
      [] cond.op = "MatchValue" ->
            cond.value \in Range(row.keyword_filter)

\* the conditions of a filter are ANDed
Admits(filter, row) == \A i \in DOMAIN filter : Matches(filter[i], row)

(***************************************************************************)
(* upsert, query and query_by_id of one adapter on one collection.         *)
(***************************************************************************)
\* provider.upsert(collection, [d])
DataUpsert(d) ==
    /\ dpc = "empty"
    /\ doc' = d
    /\ call' = [NoCall EXCEPT !.op = "upsert", !.id = d.id]
    /\ sent' = <<>>
    /\ result' = <<>>
    /\ IF upsert_raises(adapter, d)
         THEN dpc' = "raised" /\ rows' = rows
         ELSE dpc' = "stored" /\ rows' = <<upsert_row(adapter, d)>>
    /\ UNCHANGED <<adapter, dispVars, cleanVars, setupVars, protoVars>>

\* provider.query(collection, vector, top_k, x, k), top_k >= 1
DataQuery(x, k) ==
    /\ dpc = "stored"
    /\ call' = [op |-> "query", int_filter |-> x, keyword_filter |-> k, id |-> <<>>]
    /\ sent' = query_filter(adapter, x, k)
    /\ result' = IF Admits(query_filter(adapter, x, k), rows[1])
                   THEN <<to_document(adapter, rows[1])>> ELSE <<>>
    /\ dpc' = "answered"
    /\ UNCHANGED <<adapter, doc, rows, dispVars, cleanVars, setupVars, protoVars>>

\* whether query_by_id raises: only Qdrant's int(id) can
query_by_id_raises(name, id) == name = "qdrant" /\ ~is_int_literal(id)

\* the key the adapter looks a row up by
lookup_key(name, id) == IF name = "qdrant" THEN int(id) ELSE id

\* provider.query_by_id(collection, id)
DataQueryById(id) ==
    /\ dpc = "stored"
    /\ call' = [op |-> "query_by_id", int_filter |-> Absent, keyword_filter |-> Absent,
                id |-> id]
    /\ sent' = <<>>
    /\ IF query_by_id_raises(adapter, id)
         THEN dpc' = "raised" /\ result' = <<>>
         ELSE /\ dpc' = "answered"
              /\ result' = IF rows[1].id = lookup_key(adapter, id)
                             THEN <<to_document(adapter, rows[1])>> ELSE <<>>
    /\ UNCHANGED <<adapter, doc, rows, dispVars, cleanVars, setupVars, protoVars>>

(***************************************************************************)
(* setup(collection) of each adapter, one backend call per step, run by    *)
(* two Provider instances of the same backend.                             *)
(***************************************************************************)
\* each instance calls setup at most this many times
MaxSetupCalls == 2

Instances == {1, 2}

\* f"{collection_prefix}-{size}" for two of the sizes
SetupNames == { <<"x", "-", "1", "m">>, <<"x", "-", "1", "0", "m">> }

\* one backend call of instance i inside setup: it moves i from one position
\* to another, leaves the backend holding newColls and logs the events; the
\* first call of a setup begins it
SetupStep(i, from, to, newColls, events, begins) ==
    /\ spc[i] = from
    /\ begins => scalls[i] < MaxSetupCalls
    /\ spc' = [spc EXCEPT ![i] = to]
    /\ scalls' = IF begins THEN [scalls EXCEPT ![i] = @ + 1] ELSE scalls
    /\ colls' = newColls
    /\ slog' = slog \cup {[inst |-> i, call |-> scalls'[i], what |-> w] : w \in events}
    /\ UNCHANGED <<sAdapter, sName, dispVars, cleanVars, dataVars, protoVars>>

\* the events of a call that creates the collection unless it is there
CreatedIfNew(name) == IF name \in colls THEN {} ELSE {"created"}

\* variant of topk_setup without the except clause
topk_setup_uncaught(i) ==
    /\ sAdapter = "topk"
    /\ IF sName \in colls
         THEN SetupStep(i, "idle", "raised", colls, {"raised"}, TRUE)
         ELSE SetupStep(i, "idle", "idle", colls \cup {sName}, {"created", "returned"}, TRUE)

\* TopKProvider.setup: collections().create raises CollectionAlreadyExistsError
\* for a collection that is there, which setup catches
topk_setup(i) ==
    /\ sAdapter = "topk"
    /\ IF sName \in colls
         THEN SetupStep(i, "idle", "idle", colls, {"returned"}, TRUE)
         ELSE SetupStep(i, "idle", "idle", colls \cup {sName}, {"created", "returned"}, TRUE)

\* PineconeProvider.setup: if self.client.has_index(collection): return
pinecone_setup_has_index(i) ==
    /\ sAdapter = "pinecone"
    /\ IF sName \in colls
         THEN SetupStep(i, "idle", "idle", colls, {"returned"}, TRUE)
         ELSE SetupStep(i, "idle", "create", colls, {}, TRUE)

\* PineconeProvider.setup: create_index raises for an index that is there
pinecone_setup_create_index(i) ==
    /\ sAdapter = "pinecone"
    /\ IF sName \in colls
         THEN SetupStep(i, "create", "raised", colls, {"raised"}, FALSE)
         ELSE SetupStep(i, "create", "idle", colls \cup {sName}, {"created", "returned"}, FALSE)

\* QdrantProvider.setup: if collection not in [... get_collections() ...]
qdrant_setup_get_collections(i) ==
    /\ sAdapter = "qdrant"
    /\ IF sName \in colls
         THEN SetupStep(i, "idle", "idle", colls, {"returned"}, TRUE)
         ELSE SetupStep(i, "idle", "create", colls, {}, TRUE)

\* QdrantProvider.setup: create_collection raises for a collection that is there
qdrant_setup_create_collection(i) ==
    /\ sAdapter = "qdrant"
    /\ IF sName \in colls
         THEN SetupStep(i, "create", "raised", colls, {"raised"}, FALSE)
         ELSE SetupStep(i, "create", "index1", colls \cup {sName}, {"created"}, FALSE)

\* QdrantProvider.setup: the two create_payload_index calls
qdrant_setup_create_payload_index(i) ==
    /\ sAdapter = "qdrant"
    /\ IF spc[i] = "index1"
         THEN SetupStep(i, "index1", "index2", colls, {}, FALSE)
         ELSE SetupStep(i, "index2", "idle", colls, {"returned"}, FALSE)

\* MilvusProvider.setup: create_collection under the sanitized name, with no
\* check before it; Milvus accepts the create of a collection that is there
\* with the same schema and does nothing
milvus_setup_create_collection(i) ==
    /\ sAdapter = "milvus"
    /\ SetupStep(i, "idle", "load", colls \cup {sanitize_collection(sName)},
                 CreatedIfNew(sanitize_collection(sName)), TRUE)

\* MilvusProvider.setup: load_collection
milvus_setup_load_collection(i) ==
    /\ sAdapter = "milvus"
    /\ SetupStep(i, "load", "idle", colls, {"returned"}, FALSE)

\* TurbopufferProvider.setup: if self.client.namespace(namespace).exists(): return
turbopuffer_setup_exists(i) ==
    /\ sAdapter = "turbopuffer"
    /\ IF sName \in colls
         THEN SetupStep(i, "idle", "idle", colls, {"returned"}, TRUE)
         ELSE SetupStep(i, "idle", "upsert", colls, {}, TRUE)

\* TurbopufferProvider.setup: the upsert of the bootstrap document, which
\* creates the namespace when it is not there
turbopuffer_setup_upsert(i) ==
    /\ sAdapter = "turbopuffer"
    /\ SetupStep(i, "upsert", "delete", colls \cup {sName}, CreatedIfNew(sName), FALSE)

\* TurbopufferProvider.setup: the delete of the bootstrap document
turbopuffer_setup_delete_by_id(i) ==
    /\ sAdapter = "turbopuffer"
    /\ SetupStep(i, "delete", "idle", colls, {"returned"}, FALSE)

\* provider.list_collections(): the backend's collections, in any order
list_collections == Orderings(colls)

(***************************************************************************)
(* One benchmark task on its executor: run_ingest_bench, run_qps_bench,    *)
(* run_filter_bench, run_rw_bench (bench.py).  Every tb.ingest / tb.query  *)
(* call is a pass: it begins with its config and later returns or raises.  *)
(***************************************************************************)
\* the characters of the strings that are formatted into names and paths
Chars(a) ==
    CASE a = "100k"        -> <<"1", "0", "0", "k">>
      [] a = "1m"          -> <<"1", "m">>
      [] a = "10m"         -> <<"1", "0", "m">>
      [] a = "topk"        -> <<"t", "o", "p", "k">>
      [] a = "milvus"      -> <<"m", "i", "l", "v", "u", "s">>
      [] a = "turbopuffer" -> <<"t", "u", "r", "b", "o", "p", "u", "f", "f", "e", "r">>
      [] a = "qdrant"      -> <<"q", "d", "r", "a", "n", "t">>
      [] a = "pinecone"    -> <<"p", "i", "n", "e", "c", "o", "n", "e">>
      [] a = "ingest"      -> <<"i", "n", "g", "e", "s", "t">>
      [] a = "qps"         -> <<"q", "p", "s">>
      [] a = "filter"      -> <<"f", "i", "l", "t", "e", "r">>
      [] a = "rw"          -> <<"r", "w">>
      [] a = "uuid-a"      -> <<"u", "u", "i", "d", "-", "a">>
      [] a = "uuid-b"      -> <<"u", "u", "i", "d", "-", "b">>

collection_prefix == <<"x">>

\* f"{collection_prefix}-{size}"
collection_name(size) == collection_prefix \o <<"-">> \o Chars(size)

\* variant of the metrics path that leaves the size out
metrics_path_without_size(benchmark_id, provider_name, mode, size) ==
    <<"s3://my-results-bucket/">> \o Chars(benchmark_id) \o <<"/">>
        \o Chars(provider_name) \o <<"_">> \o Chars(mode) \o <<".parquet">>

\* f"s3://my-results-bucket/{benchmark_id}/{provider_name}_{mode}_{size}.parquet"
metrics_path(benchmark_id, provider_name, mode, size) ==
    <<"s3://my-results-bucket/">> \o Chars(benchmark_id) \o <<"/">>
        \o Chars(provider_name) \o <<"_">> \o Chars(mode) \o <<"_">> \o Chars(size)
        \o <<".parquet">>

\* values of the timeout option (seconds); 30 is its default
Timeouts == {30, 60}

\* a keyword argument the call does not pass
NotPassed == <<>>

NoArgs ==
    [fn |-> None, provider_name |-> None, size |-> None, benchmark_id |-> None,
     batch_size |-> 0, concurrency |-> 0, timeout |-> 0, warmup |-> FALSE]

\* tb.QueryConfig(...); int_filter / keyword_filter None is Absent
QueryConfig(size, concurrency, timeout, int_filter, keyword_filter, warmup, read_write, mode) ==
    [call |-> "query",
     config |-> [size           |-> size,
                 collection     |-> collection_name(size),
                 concurrency    |-> concurrency,
                 timeout        |-> timeout,
                 top_k          |-> 10,
                 int_filter     |-> int_filter,
                 keyword_filter |-> keyword_filter,
                 warmup         |-> warmup,
                 read_write     |-> read_write,
                 mode           |-> mode]]

\* tb.IngestConfig(...)
IngestConfig(size, batch_size, concurrency, mode) ==
    [call |-> "ingest",
     config |-> [size        |-> size,
                 collection  |-> collection_name(size),
                 batch_size  |-> batch_size,
                 concurrency |-> concurrency,
                 mode        |-> mode]]

\* the mode string each task function passes and formats into its metrics path
task_mode(fn) ==
    CASE fn = "run_ingest_bench" -> "ingest"
      [] fn = "run_qps_bench"    -> "qps"
      [] fn = "run_filter_bench" -> "filter"
      [] fn = "run_rw_bench"     -> "rw"

\* ---- run_ingest_bench: one tb.ingest call, no warmup ----
ingest_passes(a) == << IngestConfig(a.size, a.batch_size, a.concurrency, "ingest") >>

\* ---- run_qps_bench ----
qps_warmup(a) ==
    QueryConfig(a.size, 1, a.timeout * 2, Absent, Absent, Some(TRUE), NotPassed, "qps")

\* variant of the measured passes of run_qps_bench that keeps the doubled timeout
qps_passes_doubled(a) ==
    [k \in 1..4 |->
        QueryConfig(a.size, <<1, 2, 4, 8>>[k], a.timeout * 2, Absent, Absent,
                    Some(FALSE), NotPassed, "qps")]

qps_passes(a) ==
    [k \in 1..4 |->
        QueryConfig(a.size, <<1, 2, 4, 8>>[k], a.timeout, Absent, Absent,
                    Some(FALSE), NotPassed, "qps")]

\* ---- run_filter_bench ----
filter_warmup(a) ==
    QueryConfig(a.size, 1, a.timeout * 2, Some(10000), Some(<<"1", "0", "0", "0", "0">>),
                Some(TRUE), NotPassed, "filter")

filter_sweep ==
    << [i |-> Absent,      kw |-> Absent],
       [i |-> Some(10000), kw |-> Absent],
       [i |-> Some(1000),  kw |-> Absent],
       [i |-> Some(100),   kw |-> Absent],
       [i |-> Absent,      kw |-> Some(<<"1", "0", "0", "0", "0">>)],
       [i |-> Absent,      kw |-> Some(<<"0", "1", "0", "0", "0">>)],
       [i |-> Absent,      kw |-> Some(<<"0", "0", "1", "0", "0">>)] >>

\* variant of the measured passes of run_filter_bench that keeps the warmup's
\* keyword filter in the integer passes
filter_passes_both(a) ==
    [k \in DOMAIN filter_sweep |->
        QueryConfig(a.size, 1, a.timeout, filter_sweep[k].i,
                    IF filter_sweep[k].i # Absent THEN Some(<<"1", "0", "0", "0", "0">>)
                    ELSE filter_sweep[k].kw,
                    NotPassed, NotPassed, "filter")]

filter_passes(a) ==
    [k \in DOMAIN filter_sweep |->
        QueryConfig(a.size, 1, a.timeout, filter_sweep[k].i, filter_sweep[k].kw,
                    NotPassed, NotPassed, "filter")]

\* ---- run_rw_bench ----
rw_warmup(a) ==
    QueryConfig(a.size, 1, a.timeout * 2, Absent, Absent, Some(TRUE), Some(FALSE), "rw")

\* variant of the measured passes of run_rw_bench that runs the mixed pass first
rw_passes_mixed_first(a) ==
    [k \in 1..2 |->
        QueryConfig(a.size, 1, a.timeout, Absent, Absent, Some(FALSE),
                    Some(<<TRUE, FALSE>>[k]), "rw")]

rw_passes(a) ==
    [k \in 1..2 |->
        QueryConfig(a.size, 1, a.timeout, Absent, Absent, Some(FALSE),
                    Some(<<FALSE, TRUE>>[k]), "rw")]

\* whether the task function has an "if warmup:" block, and what it runs
has_warmup(a) == a.fn # "run_ingest_bench" /\ a.warmup

warmup_pass(a) ==
    CASE a.fn = "run_qps_bench"    -> qps_warmup(a)
      [] a.fn = "run_filter_bench" -> filter_warmup(a)
      [] a.fn = "run_rw_bench"     -> rw_warmup(a)

measured_passes(a) ==
    CASE a.fn = "run_ingest_bench" -> ingest_passes(a)
      [] a.fn = "run_qps_bench"    -> qps_passes(a)
      [] a.fn = "run_filter_bench" -> filter_passes(a)
      [] a.fn = "run_rw_bench"     -> rw_passes(a)

\* the executor calls the task function with the keyword arguments of the spawn
TaskStart(mode, size, k, benchmark_id, timeout, warmup) ==
    /\ ppc = "idle"
    /\ LET c == SpawnCall(mode, [size |-> size, p |-> AllProviders[k]], benchmark_id, FALSE)
       IN  pargs' = [fn |-> c.fn, provider_name |-> c.provider_name, size |-> c.size,
                     benchmark_id |-> c.benchmark_id, batch_size |-> c.batch_size,
                     concurrency |-> c.concurrency, timeout |-> timeout, warmup |-> warmup]
    /\ ppc' = "entered"
    /\ UNCHANGED <<passes, running, pidx, written, exc, dispVars, cleanVars, dataVars, setupVars>>

\* create_provider(provider_name): ok is whether the client constructor returns
create_provider(ok) ==
    /\ ppc = "entered"
    /\ ppc' = IF pargs.provider_name \in ProviderNames /\ ok THEN "created" ELSE "raised"
    /\ exc' = IF pargs.provider_name \in ProviderNames /\ ok THEN None ELSE "create_provider"
    /\ UNCHANGED <<pargs, passes, running, pidx, written,
                   dispVars, cleanVars, dataVars, setupVars>>

\* "if warmup:" and the call of the warmup pass
TaskWarmup ==
    /\ ppc = "created"
    /\ IF has_warmup(pargs)
       THEN /\ passes' = Append(passes, warmup_pass(pargs))
            /\ running' = {Len(passes) + 1}
            /\ ppc' = "warmup"
       ELSE /\ ppc' = "measuring"
            /\ UNCHANGED <<passes, running>>
    /\ UNCHANGED <<pargs, pidx, written, exc, dispVars, cleanVars, dataVars, setupVars>>

\* variant in which an exception of a pass is swallowed
PassReturnsSwallowing(ok) ==
    /\ ppc \in {"warmup", "measuring"}
    /\ running # {}
    /\ running' = {}
    /\ ppc' = "measuring"
    /\ exc' = IF ok THEN None ELSE passes[Len(passes)].call
    /\ UNCHANGED <<pargs, passes, pidx, written, dispVars, cleanVars, dataVars, setupVars>>

\* the running tb.ingest / tb.query call returns (ok) or raises
PassReturns(ok) ==
    /\ ppc \in {"warmup", "measuring"}
    /\ running # {}
    /\ running' = {}
    /\ ppc' = IF ok THEN "measuring" ELSE "raised"
    /\ exc' = IF ok THEN None ELSE passes[Len(passes)].call
    /\ UNCHANGED <<pargs, passes, pidx, written, dispVars, cleanVars, dataVars, setupVars>>

\* the next iteration of the loop over the measured passes
TaskMeasure ==
    /\ ppc = "measuring"
    /\ running = {}
    /\ pidx < Len(measured_passes(pargs))
    /\ pidx' = pidx + 1
    /\ passes' = Append(passes, measured_passes(pargs)[pidx + 1])
    /\ running' = {Len(passes) + 1}
    /\ UNCHANGED <<ppc, pargs, written, exc, dispVars, cleanVars, dataVars, setupVars>>

\* tb.write_metrics(path) after the loop
write_metrics ==
    /\ ppc = "measuring"
    /\ running = {}
    /\ pidx = Len(measured_passes(pargs))
    /\ written' = Append(written, metrics_path(pargs.benchmark_id, pargs.provider_name,
                                               task_mode(pargs.fn), pargs.size))
    /\ ppc' = "persisted"
    /\ UNCHANGED <<pargs, passes, running, pidx, exc, dispVars, cleanVars, dataVars, setupVars>>

\* the task function returns
TaskReturn ==
    /\ ppc = "persisted"
    /\ ppc' = "done"
    /\ UNCHANGED <<pargs, passes, running, pidx, written, exc,
                   dispVars, cleanVars, dataVars, setupVars>>

(***************************************************************************)
(* Specifications.                                                         *)
(***************************************************************************)
DispIdle ==
    /\ pc = "idle"
    /\ cmd = [mode |-> None, size |-> None, provider |-> None, wet |-> FALSE]
    /\ gen = <<>>
    /\ tasks = <<>>
    /\ cursor = 0
    /\ awaited = <<>>
    /\ errors = <<>>
    /\ failure = NoFailure

CleanIdle ==
    /\ cpc = "idle"
    /\ cargs = [provider_name |-> None, wet |-> FALSE]
    /\ backend = {}
    /\ listing = <<>>
    /\ ci = 0
    /\ deleted = <<>>

DataIdle ==
    /\ dpc = "idle"
    /\ adapter = None
    /\ doc = NoDoc
    /\ rows = <<>>
    /\ call = NoCall
    /\ sent = <<>>
    /\ result = <<>>

SetupIdle ==
    /\ sAdapter = None
    /\ sName = <<>>
    /\ colls = {}
    /\ spc = <<"idle", "idle">>
    /\ scalls = <<0, 0>>
    /\ slog = {}

ProtoIdle ==
    /\ ppc = "idle"
    /\ pargs = NoArgs
    /\ passes = <<>>
    /\ running = {}
    /\ pidx = 0
    /\ written = <<>>
    /\ exc = None

\* ---- the dispatcher: one invocation of an entrypoint ----
Init == DispIdle /\ CleanIdle /\ DataIdle /\ SetupIdle /\ ProtoIdle

Invoke ==
    \/ \E s \in SizeArgs, p \in ProviderArgs, b \in BenchmarkIds : ingest(s, p, b)
    \/ \E s \in SizeArgs, p \in ProviderArgs, b \in BenchmarkIds : qps(s, p, b)
    \/ \E s \in SizeArgs, p \in ProviderArgs, b \in BenchmarkIds : filters(s, p, b)
    \/ \E s \in SizeArgs, p \in ProviderArgs, b \in BenchmarkIds : rw(s, p, b)
    \/ \E p \in ProviderArgs, w \in BOOLEAN : cleanup(p, w)

Next ==
    \/ Invoke
    \/ RunSpawn
    \/ RunSpawned
    \/ RunAwait
    \/ RunFinish

Spec == Init /\ [][Next]_vars

\* ---- one cleanup task, started on a backend holding some collections ----
InitCleanup ==
    /\ DispIdle
    /\ ProtoIdle
    /\ DataIdle
    /\ SetupIdle
    /\ cpc = "start"
    /\ \E n \in ProviderNames, w \in BOOLEAN :
         /\ cargs = [provider_name |-> n, wet |-> w]
         /\ \E S \in SUBSET CollectionPool :
              /\ Cardinality(S) <= MaxCollections
              /\ backend = {BackendName(n, c) : c \in S}
    /\ listing = <<>>
    /\ ci = 0
    /\ deleted = <<>>

NextCleanup ==
    \/ CleanList
    \/ CleanLoop
    \/ CleanReturn

SpecCleanup == InitCleanup /\ [][NextCleanup]_vars

\* ---- one adapter: a document is upserted, then queried ----
InitData ==
    /\ DispIdle
    /\ ProtoIdle
    /\ CleanIdle
    /\ SetupIdle
    /\ dpc = "empty"
    /\ adapter \in ProviderNames
    /\ doc = NoDoc
    /\ rows = <<>>
    /\ call = NoCall
    /\ sent = <<>>
    /\ result = <<>>

NextData ==
    \/ \E d \in Documents : DataUpsert(d)
    \/ \E x \in IntFilters, k \in KeywordFilters : DataQuery(x, k)
    \/ \E id \in DocIds : DataQueryById(id)

SpecData == InitData /\ [][NextData]_vars

\* ---- two instances of one adapter calling setup on one collection ----
InitSetup ==
    /\ DispIdle
    /\ ProtoIdle
    /\ CleanIdle
    /\ DataIdle
    /\ sAdapter \in ProviderNames
    /\ sName \in SetupNames
    /\ colls \in SUBSET {BackendName(sAdapter, c) : c \in SetupNames}
    /\ spc = <<"idle", "idle">>
    /\ scalls = <<0, 0>>
    /\ slog = {}

NextSetup ==
    \E i \in Instances :
        \/ topk_setup(i)
        \/ pinecone_setup_has_index(i)
        \/ pinecone_setup_create_index(i)
        \/ qdrant_setup_get_collections(i)
        \/ qdrant_setup_create_collection(i)
        \/ qdrant_setup_create_payload_index(i)
        \/ milvus_setup_create_collection(i)
        \/ milvus_setup_load_collection(i)
        \/ turbopuffer_setup_exists(i)
        \/ turbopuffer_setup_upsert(i)
        \/ turbopuffer_setup_delete_by_id(i)

SpecSetup == InitSetup /\ [][NextSetup]_vars

\* ---- one benchmark task, from the call of its function to its return ----
InitProtocol ==
    /\ DispIdle
    /\ CleanIdle
    /\ DataIdle
    /\ SetupIdle
    /\ ProtoIdle

NextProtocol ==
    \/ \E size \in Range(AllSizes), k \in DOMAIN AllProviders, benchmark_id \in BenchmarkIds :
           TaskStart("ingest", size, k, benchmark_id, 0, FALSE)
    \/ \E mode \in {"qps", "filters", "rw"}, size \in Range(AllSizes),
          k \in DOMAIN AllProviders, benchmark_id \in BenchmarkIds,
          timeout \in Timeouts, warmup \in BOOLEAN :
           TaskStart(mode, size, k, benchmark_id, timeout, warmup)
    \/ \E ok \in BOOLEAN : create_provider(ok)
    \/ TaskWarmup
    \/ \E ok \in BOOLEAN : PassReturns(ok)
    \/ TaskMeasure
    \/ write_metrics
    \/ TaskReturn

SpecProtocol == InitProtocol /\ [][NextProtocol]_vars

(***************************************************************************)
(* Properties of the dispatcher (checked under Spec).                      *)
(***************************************************************************)
RunEnded == pc \in {"returned", "raised"}

\* K: the number of awaited tasks whose get() raised
FailedCount == Cardinality({i \in DOMAIN awaited : ~awaited[i].ok})

\* C1: when run() ends, every submitted task has been awaited; run() raised an
\* aggregate exception iff K > 0 of them failed, the count it reports and the
\* number of collected errors are K, and the collected errors are the failed
\* tasks; with K = 0 it returned normally.
C1_AggregateIffFailed ==
    RunEnded =>
        /\ Len(awaited) = Len(tasks)
        /\ (pc = "raised") <=> (FailedCount > 0)
        /\ (pc = "returned") <=> (FailedCount = 0)
        /\ pc = "returned" => failure = NoFailure
        /\ pc = "raised" =>
             /\ failure # NoFailure
             /\ failure.kind = "Exception"
             /\ failure.count = FailedCount
             /\ Len(failure.errors) = FailedCount
             /\ Range(failure.errors) = {awaited[i].task : i \in {j \in DOMAIN awaited : ~awaited[j].ok}}

\* 15 tasks of which exactly one failed: one aggregate exception reporting 1
C1_Witness ==
    /\ pc = "raised"
    /\ Len(tasks) = 15
    /\ FailedCount = 1
    /\ failure.count = 1

\* C2: every task is spawned before the first handle is awaited; handles are
\* awaited one at a time in submission order; when run() ends every handle has
\* been awaited exactly once, whatever failed before it; once awaiting has begun
\* nothing is spawned again, and no call is spawned twice.
C2_State ==
    /\ awaited # <<>> => gen = <<>>
    /\ \A i \in DOMAIN awaited : awaited[i].task = i
    /\ Len(awaited) <= Len(tasks)
    /\ RunEnded => \A t \in DOMAIN tasks :
                      Cardinality({i \in DOMAIN awaited : awaited[i].task = t}) = 1
    /\ \A i, j \in DOMAIN tasks : i # j => tasks[i] # tasks[j]

C2_Step ==
    /\ awaited # <<>> => tasks' = tasks
    /\ Len(awaited') <= Len(awaited) + 1
    /\ Len(tasks') >= Len(tasks) \/ pc = "idle"

C2_SpawnAllThenAwaitInOrder == [](C2_State) /\ [][C2_Step]_vars

\* the last of 15 handles is awaited after the first and the second failed
C2_Witness ==
    /\ Len(tasks) = 15
    /\ Len(awaited) = 15
    /\ ~awaited[1].ok
    /\ ~awaited[2].ok
    /\ awaited[15].ok

\* the sizes and providers an override selects
SelectedSizes(only) ==
    IF only = None THEN {"100k", "1m", "10m"} ELSE {only} \cap {"100k", "1m", "10m"}

SelectedProviders(only) ==
    IF only = None THEN {"topk", "milvus", "turbopuffer", "qdrant", "pinecone"}
    ELSE {only} \cap {"topk", "milvus", "turbopuffer", "qdrant", "pinecone"}

AllSpawned == pc \in {"awaiting", "returned", "raised"}

\* the (size, provider) pairs of the spawned tasks
SpawnedPairs == {<<tasks[i].size, tasks[i].provider_name>> : i \in DOMAIN tasks}

OnePerCombination ==
    /\ SpawnedPairs = SelectedSizes(cmd.size) \X SelectedProviders(cmd.provider)
    /\ Len(tasks) = Cardinality(SelectedSizes(cmd.size)) * Cardinality(SelectedProviders(cmd.provider))

\* C9: ingest spawns exactly one task per element of (selected sizes) x
\* (selected providers), no duplicate and no omission: 15 with no override, one
\* size only under a size override, one provider only under a provider override.
C9_IngestMatrix ==
    (cmd.mode = "ingest" /\ AllSpawned) =>
        /\ OnePerCombination
        /\ (cmd.size = None /\ cmd.provider = None) => Len(tasks) = 15
        /\ cmd.size # None => \A i \in DOMAIN tasks : tasks[i].size = cmd.size
        /\ cmd.provider # None => \A i \in DOMAIN tasks : tasks[i].provider_name = cmd.provider
        /\ \A i \in DOMAIN tasks : tasks[i].fn = "run_ingest_bench"

\* ingest of one size for all providers: 5 tasks, all of that size
C9_Witness ==
    /\ cmd.mode = "ingest"
    /\ cmd.size = "1m"
    /\ cmd.provider = None
    /\ AllSpawned
    /\ Len(tasks) = 5

\* C10 as claimed: in the qps, filters and rw modes there is one task per
\* selected provider.
C10_OnePerProvider ==
    (cmd.mode \in {"qps", "filters", "rw"} /\ AllSpawned) =>
        Len(tasks) = Cardinality(SelectedProviders(cmd.provider))

\* C10 amended: in the qps, filters and rw modes there is one task per
\* combination of a selected size and a selected provider, each task being given
\* its one size; that is one per provider only when a single size is selected.
C10_OnePerSizeAndProvider ==
    (cmd.mode \in {"qps", "filters", "rw"} /\ AllSpawned) =>
        /\ OnePerCombination
        /\ \A i \in DOMAIN tasks : tasks[i].size \in SelectedSizes(cmd.size)
        /\ (Len(tasks) = Cardinality(SelectedProviders(cmd.provider)))
             <=> (Cardinality(SelectedSizes(cmd.size)) = 1
                    \/ SelectedProviders(cmd.provider) = {})

\* qps with no override: 15 tasks, three for each provider
C10_Witness ==
    /\ cmd.mode = "qps"
    /\ cmd.size = None
    /\ cmd.provider = None
    /\ AllSpawned
    /\ Len(tasks) = 15

(***************************************************************************)
(* Properties of the cleanup task (checked under SpecCleanup).             *)
(***************************************************************************)
\* C3: with wet unset cleanup_provider never calls delete_collection and the
\* backend keeps every collection; with wet set it calls delete_collection at
\* most once per listed collection and for no other, and when it returns it has
\* called it exactly once for each listed collection, none of which is left.
C3_DryRunDeletesNothing ==
    /\ Range(deleted) \subseteq Range(listing)
    /\ \A c \in Range(listing) : Count(deleted, c) <= 1
    /\ ~cargs.wet =>
         /\ deleted = <<>>
         /\ cpc # "start" => backend = Range(listing)
    /\ (cargs.wet /\ cpc = "done") =>
         /\ \A c \in Range(listing) : Count(deleted, c) = 1
         /\ Len(deleted) = Len(listing)
         /\ backend = {}

\* a dry run that went through three collections and returned
C3_Witness ==
    /\ ~cargs.wet
    /\ cpc = "done"
    /\ Len(listing) = 3
    /\ Cardinality(backend) = 3

(***************************************************************************)
(* Properties of the adapters (checked under SpecData).                    *)
(***************************************************************************)
QueryAnswered == dpc = "answered" /\ call.op = "query"

\* the conditions of the sent filter that are on one field
OnField(filter, f) == SelectSeq(filter, LAMBDA c : c.field = f)

\* C4: for every adapter and every threshold X (0 and negative X included) the
\* predicate sent on int_filter admits the stored document iff its int_filter
\* <= X, and a condition on int_filter is left out only when X is None.
C4_IntFilterIsLte ==
    QueryAnswered =>
        /\ (OnField(sent, "int_filter") = <<>>) <=> (call.int_filter = Absent)
        /\ call.int_filter # Absent =>
             (Admits(OnField(sent, "int_filter"), rows[1])
                <=> doc.int_filter <= call.int_filter[1])

\* C5: for every adapter and every keyword_filter K of one or several tokens
\* the predicate sent on keyword_filter admits the stored document iff every
\* token of K is a token of the document's keyword_filter; every document
\* returned by the query has every token of K.
C5_KeywordFilterIsAllTokens ==
    (QueryAnswered /\ call.keyword_filter # Absent) =>
        /\ Admits(OnField(sent, "keyword_filter"), rows[1])
             <=> (Tokens(call.keyword_filter[1]) \subseteq Tokens(doc.keyword_filter))
        /\ \A i \in DOMAIN result :
             Tokens(call.keyword_filter[1]) \subseteq Tokens(result[i].keyword_filter)

\* C6: for every adapter and every document D, upsert of D followed by
\* query_by_id(D.id) returns one document with D's id, text and int_filter and
\* with D's keyword_filter token set.
C6_RoundTrip ==
    (dpc = "answered" /\ call.op = "query_by_id" /\ call.id = doc.id) =>
        /\ Len(result) = 1
        /\ result[1].id = doc.id
        /\ result[1].text = doc.text
        /\ result[1].int_filter = doc.int_filter
        /\ Tokens(result[1].keyword_filter) = Tokens(doc.keyword_filter)

(***************************************************************************)
(* Properties of setup (checked under SpecSetup).                          *)
(***************************************************************************)
Happened(i, c, what) == [inst |-> i, call |-> c, what |-> what] \in slog

\* instance i has made two setup calls in sequence, both ended, while the other
\* instance made none
TwiceInSequence(i) ==
    /\ scalls[i] >= 2
    /\ spc[i] \in {"idle", "raised"}
    /\ \A j \in Instances \ {i} : scalls[j] = 0

\* C7 as claimed: after two setup calls in sequence neither has raised, the
\* second created nothing, and list_collections reports exactly one collection
\* of the name passed to setup.
C7_SetupTwiceListsName ==
    \A i \in Instances : TwiceInSequence(i) =>
        /\ ~Happened(i, 1, "raised") /\ ~Happened(i, 2, "raised")
        /\ Happened(i, 1, "returned") /\ Happened(i, 2, "returned")
        /\ ~Happened(i, 2, "created")
        /\ \A l \in list_collections : Count(l, sName) = 1

\* C7 amended: after two setup calls in sequence neither has raised, the second
\* created nothing, and list_collections reports exactly one collection of the
\* name under which the adapter keeps the collection: the name passed to setup,
\* except for Milvus, where it is that name with "-" replaced by "_".
C7_SetupTwiceListsBackendName ==
    \A i \in Instances : TwiceInSequence(i) =>
        /\ ~Happened(i, 1, "raised") /\ ~Happened(i, 2, "raised")
        /\ Happened(i, 1, "returned") /\ Happened(i, 2, "returned")
        /\ ~Happened(i, 2, "created")
        /\ \A l \in list_collections : Count(l, BackendName(sAdapter, sName)) = 1
        /\ sAdapter # "milvus" => \A l \in list_collections : Count(l, sName) = 1

\* two setup calls in sequence on a backend that did not have the collection:
\* the first created it and the second did not
C7_Witness ==
    /\ TwiceInSequence(1)
    /\ Happened(1, 1, "created")
    /\ Happened(1, 2, "returned")
    /\ sAdapter = "milvus"

\* C8: whatever the interleaving of the two instances' existence checks and
\* create calls, no setup call raises.
C8_NoSetupRaises == \A e \in slog : e.what # "raised"


(***************************************************************************)
(* Properties of one benchmark task (checked under SpecProtocol).          *)
(***************************************************************************)
\* the task function has run to its end
TaskComplete == ppc \in {"persisted", "done"}

\* number of warmup passes the task's arguments call for
WarmupCount == IF pargs.warmup THEN 1 ELSE 0

\* only the pass begun last can still be running: a pass begins after the previous
\* one has returned
OnePassAtATime == running \subseteq {Len(passes)}

\* C11: a QPS-sweep task runs one warmup pass (concurrency 1, timeout doubled, no
\* filters) first when warmup is enabled and none when it is disabled, then exactly
\* four measured passes with concurrency 1, 2, 4, 8 in that order, each with no
\* filters and the undoubled timeout, each beginning after the previous pass returned.
C11_QpsSweep ==
    pargs.fn = "run_qps_bench" =>
        /\ Len(passes) <= WarmupCount + 4
        /\ TaskComplete => Len(passes) = WarmupCount + 4 /\ running = {}
        /\ OnePassAtATime
        /\ \A k \in DOMAIN passes :
              /\ passes[k].call = "query"
              /\ passes[k].config.int_filter = Absent
              /\ passes[k].config.keyword_filter = Absent
              /\ IF k <= WarmupCount
                 THEN /\ passes[k].config.warmup = Some(TRUE)
                      /\ passes[k].config.concurrency = 1
                      /\ passes[k].config.timeout = 2 * pargs.timeout
                 ELSE /\ passes[k].config.warmup = Some(FALSE)
                      /\ passes[k].config.concurrency = <<1, 2, 4, 8>>[k - WarmupCount]
                      /\ passes[k].config.timeout = pargs.timeout

\* a QPS sweep with warmup has run all five of its passes and returned
C11_Witness ==
    /\ pargs.fn = "run_qps_bench"
    /\ pargs.warmup
    /\ ppc = "done"
    /\ Len(passes) = 5
    /\ passes[5].config.concurrency = 8

\* the keyword tokens of the filter sweep, as strings of characters
Kw100 == <<"1", "0", "0", "0", "0">>
Kw10  == <<"0", "1", "0", "0", "0">>
Kw1   == <<"0", "0", "1", "0", "0">>

\* C12: a filter-sweep task runs, when warmup is enabled, one warmup pass with both
\* filters at their 100% values (int_filter 10000, keyword_filter "10000") and none
\* otherwise; then exactly seven measured passes at concurrency 1, one after the
\* other: unfiltered, int_filter 10000, 1000, 100 (100%, 10%, 1%), keyword_filter
\* "10000", "01000", "00100" (100%, 10%, 1%), never with both filters set.
C12_FilterSweep ==
    pargs.fn = "run_filter_bench" =>
        /\ Len(passes) <= WarmupCount + 7
        /\ TaskComplete => Len(passes) = WarmupCount + 7 /\ running = {}
        /\ OnePassAtATime
        /\ \A k \in DOMAIN passes :
              /\ passes[k].call = "query"
              /\ passes[k].config.concurrency = 1
              /\ IF k <= WarmupCount
                 THEN /\ passes[k].config.warmup = Some(TRUE)
                      /\ passes[k].config.int_filter = Some(10000)
                      /\ passes[k].config.keyword_filter = Some(Kw100)
                 ELSE /\ passes[k].config.int_filter =
                           << Absent, Some(10000), Some(1000), Some(100),
                              Absent, Absent, Absent >>[k - WarmupCount]
                      /\ passes[k].config.keyword_filter =
                           << Absent, Absent, Absent, Absent,
                              Some(Kw100), Some(Kw10), Some(Kw1) >>[k - WarmupCount]
                      /\ \/ passes[k].config.int_filter = Absent
                         \/ passes[k].config.keyword_filter = Absent

\* a filter sweep with warmup has run its warmup and seven measured passes and returned
C12_Witness ==
    /\ pargs.fn = "run_filter_bench"
    /\ pargs.warmup
    /\ ppc = "done"
    /\ Len(passes) = 8
    /\ passes[1].config.int_filter = Some(10000)
    /\ passes[8].config.keyword_filter = Some(Kw1)

\* C13: a read/write task runs, when warmup is enabled, one read-only unfiltered warmup
\* pass; then exactly two measured passes at concurrency 1 with no filters, the
\* read-only baseline (read_write false) first and the mixed pass (read_write true)
\* second.
C13_ReadWrite ==
    pargs.fn = "run_rw_bench" =>
        /\ Len(passes) <= WarmupCount + 2
        /\ TaskComplete => Len(passes) = WarmupCount + 2 /\ running = {}
        /\ OnePassAtATime
        /\ \A k \in DOMAIN passes :
              /\ passes[k].call = "query"
              /\ passes[k].config.concurrency = 1
              /\ passes[k].config.int_filter = Absent
              /\ passes[k].config.keyword_filter = Absent
              /\ IF k <= WarmupCount
                 THEN /\ passes[k].config.warmup = Some(TRUE)
                      /\ passes[k].config.read_write = Some(FALSE)
                 ELSE /\ passes[k].config.warmup = Some(FALSE)
                      /\ passes[k].config.read_write = Some(k - WarmupCount = 2)
        /\ \A j, k \in DOMAIN passes :
              (passes[j].config.read_write = Some(TRUE) /\ j < k) => k = j

\* a read/write task with warmup has run warmup, baseline and mixed pass and returned
C13_Witness ==
    /\ pargs.fn = "run_rw_bench"
    /\ pargs.warmup
    /\ ppc = "done"
    /\ Len(passes) = 3
    /\ passes[2].config.read_write = Some(FALSE)
    /\ passes[3].config.read_write = Some(TRUE)

\* the order of the positions of a task; "raised" is the abort
Rank(p) ==
    CASE p = "idle"      -> 0
      [] p = "entered"   -> 1
      [] p = "created"   -> 2
      [] p = "warmup"    -> 3
      [] p = "measuring" -> 4
      [] p = "persisted" -> 5
      [] p = "done"      -> 6
      [] p = "raised"    -> 7

\* number of measured passes of each task function
MeasuredCount ==
    CASE pargs.fn = "run_ingest_bench" -> 1
      [] pargs.fn = "run_qps_bench"    -> 4
      [] pargs.fn = "run_filter_bench" -> 7
      [] pargs.fn = "run_rw_bench"     -> 2
      [] OTHER                         -> 0

IsPrefix(s, t) == Len(s) <= Len(t) /\ \A k \in DOMAIN s : s[k] = t[k]

C15_State ==
    /\ Len(written) <= 1
    /\ (written # <<>>) <=> ppc \in {"persisted", "done"}
    /\ written # <<>> =>
          /\ running = {}
          /\ pidx = MeasuredCount
          /\ Len(passes) = pidx + (IF has_warmup(pargs) THEN 1 ELSE 0)
    /\ (exc # None) <=> ppc = "raised"
    /\ exc # None => written = <<>> /\ running = {}

C15_Step ==
    /\ Rank(ppc') >= Rank(ppc)
    /\ pidx' >= pidx
    /\ IsPrefix(passes, passes')
    /\ IsPrefix(written, written')
    /\ exc # None => UNCHANGED protoVars

\* C15: a task moves only forward through entered, created, warmup, measuring,
\* persisted, done; the metrics artifact is written exactly once, after the last
\* measured pass has returned; when create_provider, the warmup or a measured pass
\* raises, the task stops there: no later pass begins and no artifact is written.
C15_ForwardOnly == []C15_State /\ [][C15_Step]_vars

\* a task has aborted in its second measured pass, after its warmup and its first
\* measured pass returned
C15_Witness ==
    /\ ppc = "raised"
    /\ exc = "query"
    /\ pidx = 2
    /\ Len(passes) = 3
    /\ written = <<>>

(***************************************************************************)
(* Properties of the dispatcher and its tasks together (checked under      *)
(* Spec).                                                                  *)
(***************************************************************************)
\* the path the task of a spawn call hands to tb.write_metrics
TaskPath(c) == metrics_path(c.benchmark_id, c.provider_name, task_mode(c.fn), c.size)

\* the (benchmark_id, provider, mode, size) tuples
ArtifactKeys ==
    BenchmarkIds \X ProviderNames \X {"ingest", "qps", "filter", "rw"} \X Range(AllSizes)

\* the path is a function of the tuple that gives distinct tuples distinct paths
PathsDistinct ==
    Cardinality({metrics_path(t[1], t[2], t[3], t[4]) : t \in ArtifactKeys})
        = Cardinality(ArtifactKeys)

\* C14: all tasks of one invocation are given the same benchmark_id, no two of them
\* write their metrics artifact to the same path, and distinct (benchmark_id,
\* provider, mode, size) tuples have distinct paths.
C14_SharedIdDistinctPaths ==
    /\ PathsDistinct
    /\ cmd.mode \in {"ingest", "qps", "filters", "rw"} =>
          \A i, j \in DOMAIN tasks :
              /\ tasks[i].benchmark_id = tasks[j].benchmark_id
              /\ tasks[i].benchmark_id \in BenchmarkIds
              /\ i # j => TaskPath(tasks[i]) # TaskPath(tasks[j])

\* a filter sweep over all sizes and providers has spawned its fifteen tasks, two of
\* them for the same provider
C14_Witness ==
    /\ cmd.mode = "filters"
    /\ AllSpawned
    /\ Len(tasks) = 15
    /\ tasks[1].provider_name = tasks[6].provider_name
    /\ tasks[1].benchmark_id = "uuid-b"

\* region strings that are neither "eu" nor "us"
OtherRegions == {"ap", "EU", "us-east-1", "eu "}

\* the region list_providers gives a provider
RegionOf(provider_name) ==
    AllProviders[CHOOSE k \in DOMAIN AllProviders :
                     AllProviders[k].provider = provider_name].region

\* C16: every task is submitted to the executor of its own provider's region: topk,
\* milvus, turbopuffer and qdrant to the eu executor, pinecone to the us executor;
\* for a region other than eu and us, runner raises and yields no executor.
C16_RegionBoundExecutor ==
    /\ \A r \in OtherRegions : runner(r) = "ValueError"
    /\ \A i \in DOMAIN tasks :
          /\ tasks[i].executor \in {"eu_runner", "us_runner"}
          /\ tasks[i].executor = "eu_runner" <=> RegionOf(tasks[i].provider_name) = "eu"
          /\ tasks[i].executor = "us_runner" <=> RegionOf(tasks[i].provider_name) = "us"
          /\ tasks[i].provider_name \in {"topk", "milvus", "turbopuffer", "qdrant"}
                => tasks[i].executor = "eu_runner"
          /\ tasks[i].provider_name = "pinecone" => tasks[i].executor = "us_runner"

\* an invocation over all providers has submitted tasks to both executors
C16_Witness ==
    /\ AllSpawned
    /\ cmd.provider = None
    /\ \E i, j \in DOMAIN tasks :
          /\ tasks[i].provider_name = "qdrant" /\ tasks[i].executor = "eu_runner"
          /\ tasks[j].provider_name = "pinecone" /\ tasks[j].executor = "us_runner"

\* the invocation's size or provider override names a value that is not in the list
UnknownOverride ==
    \/ cmd.size # None /\ cmd.size \notin Range(AllSizes)
    \/ cmd.provider # None /\ cmd.provider \notin ProviderNames

\* C17: when the size or provider override names a value that is not in the known
\* list, the generator is empty, no task is submitted or awaited, and run neither
\* raises nor collects an error: the invocation goes on to return normally.
C17_UnknownOverrideIsEmptyRun ==
    (cmd.mode # None /\ UnknownOverride) =>
        /\ gen = <<>>
        /\ tasks = <<>>
        /\ awaited = <<>>
        /\ errors = <<>>
        /\ failure = NoFailure
        /\ pc \in {"spawning", "awaiting", "returned"}

\* an invocation with an unknown size has returned without having spawned a task
C17_Witness ==
    /\ cmd.mode = "rw"
    /\ cmd.size = "1g"
    /\ cmd.provider = "topk"
    /\ pc = "returned"
    /\ tasks = <<>>

====
